---- MODULE Spec2Model ----
(***************************************************************************)
(* Error Simplifier for Java (src/extension.js): one invocation of         *)
(* handleJavaExecution, from the file-path check through getApiKey,        *)
(* compileJava, runJava, cleanJavaError, getErrorExplanation (retry loop,  *)
(* failure mapping, formatExplanation) to the messages shown to the user.  *)
(*                                                                         *)
(* A JavaScript string is a sequence of one-character strings; undefined   *)
(* is the value Undefined.                                                 *)
(***************************************************************************)
EXTENDS Integers, Sequences, FiniteSets, TLC

\* ------------------------------------------------------------------------
\* String primitives of the JavaScript runtime used by the source
\* ------------------------------------------------------------------------

\* the empty string
Empty == <<>>

\* characters String.prototype.trim and the pattern class \s treat as blank
WhiteSpace == {" ", "\n", "\t", "\r"}

\* characters the pattern class \d matches
Digits == {"0", "1", "2", "3", "4", "5", "6", "7", "8", "9"}

\* s.substring(from - 1, to) in 1-based, inclusive positions
Slice(s, from, to) == IF from > to THEN Empty ELSE SubSeq(s, from, to)

\* s.startsWith(p, at - 1) in 1-based positions
StartsAt(s, p, at) ==
  /\ at + Len(p) - 1 <= Len(s)
  /\ \A k \in 1..Len(p) : s[at + k - 1] = p[k]

\* s.endsWith(suffix)
endsWith(s, suffix) ==
  /\ Len(suffix) <= Len(s)
  /\ StartsAt(s, suffix, Len(s) - Len(suffix) + 1)

\* s.includes(sub)
includes(s, sub) == \E at \in 1..(Len(s) + 1) : StartsAt(s, sub, at)

RECURSIVE splitFrom(_, _, _, _)
\* the pieces of s from position at on, cur being the piece under construction
splitFrom(s, sep, at, cur) ==
  IF at > Len(s) THEN <<cur>>
  ELSE IF s[at] = sep THEN <<cur>> \o splitFrom(s, sep, at + 1, Empty)
  ELSE splitFrom(s, sep, at + 1, Append(cur, s[at]))

\* s.split(sep) for a one-character separator
split(s, sep) == splitFrom(s, sep, 1, Empty)

RECURSIVE join(_, _)
\* lines.join(sep)
join(lines, sep) ==
  IF Len(lines) = 0 THEN Empty
  ELSE IF Len(lines) = 1 THEN lines[1]
  ELSE lines[1] \o <<sep>> \o join(Tail(lines), sep)

RECURSIVE trimStart(_)
trimStart(s) ==
  IF Len(s) > 0 /\ s[1] \in WhiteSpace THEN trimStart(Tail(s)) ELSE s

RECURSIVE trimEnd(_)
trimEnd(s) ==
  IF Len(s) > 0 /\ s[Len(s)] \in WhiteSpace
  THEN trimEnd(SubSeq(s, 1, Len(s) - 1)) ELSE s

\* s.trim()
trim(s) == trimEnd(trimStart(s))

\* position of the last occurrence of character c in s, 0 if none
LastIndexOf(s, c) ==
  IF \E k \in 1..Len(s) : s[k] = c
  THEN CHOOSE k \in 1..Len(s) : s[k] = c /\ \A j \in (k + 1)..Len(s) : s[j] # c
  ELSE 0

\* ------------------------------------------------------------------------
\* new RegExp(source, "g") and String.prototype.replace, as cleanJavaError
\* uses them.  The pattern sources are file paths over ordinary characters,
\* "." (any character but a line terminator) and "+" (one or more of the
\* preceding atom, greedy).
\* ------------------------------------------------------------------------

LineTerminators == {"\n", "\r"}

RECURSIVE parsePattern(_, _, _)
\* the atoms of the pattern, or ok = FALSE where the constructor throws
\* SyntaxError ("Nothing to repeat")
parsePattern(source, at, atoms) ==
  IF at > Len(source) THEN [ok |-> TRUE, atoms |-> atoms]
  ELSE IF source[at] = "+"
  THEN IF Len(atoms) = 0 \/ atoms[Len(atoms)].plus
       THEN [ok |-> FALSE, atoms |-> <<>>]
       ELSE parsePattern(source, at + 1,
                         [atoms EXCEPT ![Len(atoms)].plus = TRUE])
  ELSE parsePattern(source, at + 1,
                    Append(atoms, [ch |-> source[at],
                                   any |-> source[at] = ".",
                                   plus |-> FALSE]))

\* new RegExp(source, "g")
RegExp(source) == parsePattern(source, 1, <<>>)

AtomMatches(atom, c) ==
  IF atom.any THEN c \notin LineTerminators ELSE c = atom.ch

RECURSIVE RunLength(_, _, _)
\* how many characters of s from position at on the atom matches in a row
RunLength(atom, s, at) ==
  IF at <= Len(s) /\ AtomMatches(atom, s[at])
  THEN 1 + RunLength(atom, s, at + 1) ELSE 0

RECURSIVE matchFrom(_, _, _, _)
RECURSIVE greedy(_, _, _, _, _)
\* the position after the match of atoms k.. at position at of s, 0 if the
\* backtracking matcher finds none
matchFrom(atoms, k, s, at) ==
  IF k > Len(atoms) THEN at
  ELSE IF atoms[k].plus
  THEN greedy(atoms, k, s, at, RunLength(atoms[k], s, at))
  ELSE IF at <= Len(s) /\ AtomMatches(atoms[k], s[at])
  THEN matchFrom(atoms, k + 1, s, at + 1)
  ELSE 0

\* atom k repeated n times, then n - 1, ... down to once
greedy(atoms, k, s, at, n) ==
  IF n < 1 THEN 0
  ELSE LET r == matchFrom(atoms, k + 1, s, at + n)
       IN IF r # 0 THEN r ELSE greedy(atoms, k, s, at, n - 1)

RECURSIVE replaceFrom(_, _, _, _)
\* s.replace(re, replacement) from position at on: every match, left to
\* right, non-overlapping; an empty match advances by one character
replaceFrom(s, atoms, replacement, at) ==
  LET e == IF at <= Len(s) + 1 THEN matchFrom(atoms, 1, s, at) ELSE 0
  IN IF at > Len(s)
     THEN IF e = at THEN replacement ELSE Empty
     ELSE IF e = 0 THEN <<s[at]>> \o replaceFrom(s, atoms, replacement, at + 1)
     ELSE IF e = at
     THEN replacement \o <<s[at]>> \o replaceFrom(s, atoms, replacement, at + 1)
     ELSE replacement \o replaceFrom(s, atoms, replacement, e)

\* s.replace(re, replacement) for a global pattern
replace(s, atoms, replacement) == replaceFrom(s, atoms, replacement, 1)

\* ------------------------------------------------------------------------
\* Pure functions of src/extension.js
\* ------------------------------------------------------------------------

Note == <<"N", "o", "t", "e", ":">>

DotJava == <<".", "j", "a", "v", "a">>

\* the SyntaxError new RegExp(contextPath, "g") throws
RegExpSyntaxError(source) ==
  [tpl |-> "Invalid regular expression: /${text}/: Nothing to repeat",
   model |-> "", status |-> 0, detail |-> "", text |-> source]

\* cleanJavaError as it would be if the text were trimmed before the lines
\* are filtered instead of after
cleanJavaError_TrimFirst(error, contextPath) ==
  LET re == RegExp(contextPath)
      keep(line) == ~includes(line, Note)
  IN IF ~re.ok
     THEN [threw |-> TRUE, value |-> Empty,
           error |-> RegExpSyntaxError(contextPath)]
     ELSE [threw |-> FALSE,
           value |-> join(SelectSeq(split(trim(replace(error, re.atoms,
                                                       Empty)), "\n"),
                                    keep), "\n"),
           error |-> RegExpSyntaxError(Empty)]

\* cleanJavaError(error, contextPath): threw = TRUE where it throws
cleanJavaError(error, contextPath) ==
  LET re == RegExp(contextPath)
      keep(line) == ~includes(line, Note)
  IN IF ~re.ok
     THEN [threw |-> TRUE, value |-> Empty,
           error |-> RegExpSyntaxError(contextPath)]
     ELSE [threw |-> FALSE,
           value |-> trim(join(SelectSeq(split(replace(error, re.atoms,
                                                       Empty), "\n"),
                                         keep), "\n")),
           error |-> RegExpSyntaxError(Empty)]

\* path.parse(filePath).dir
ParseDir(filePath) ==
  LET slash == LastIndexOf(filePath, "/")
  IN IF slash = 0 THEN Empty
     ELSE IF slash = 1 THEN <<"/">>
     ELSE Slice(filePath, 1, slash - 1)

\* path.parse(filePath).name
ParseName(filePath) ==
  LET base == Slice(filePath, LastIndexOf(filePath, "/") + 1, Len(filePath))
      dot == LastIndexOf(base, ".")
  IN IF dot <= 1 THEN base ELSE Slice(base, 1, dot - 1)

RECURSIVE WhiteRun(_, _)
\* length of the run of blank characters of s that starts at position at
WhiteRun(s, at) ==
  IF at <= Len(s) /\ s[at] \in WhiteSpace THEN 1 + WhiteRun(s, at + 1) ELSE 0

RECURSIVE DigitRun(_, _)
DigitRun(s, at) ==
  IF at <= Len(s) /\ s[at] \in Digits THEN 1 + DigitRun(s, at + 1) ELSE 0

\* the position after the match of /\n\s*\n/ at position at, 0 if none: \s*
\* is greedy, so the match ends with the last newline of the blank run
BlankLinesEnd(s, at) ==
  IF at > Len(s) \/ s[at] # "\n" THEN 0
  ELSE LET w == WhiteRun(s, at + 1)
           js == {j \in 0..(w - 1) : s[at + 1 + j] = "\n"}
       IN IF js = {} THEN 0
          ELSE (at + 1 + CHOOSE j \in js : \A i \in js : i <= j) + 1

RECURSIVE collapseBlankLines(_, _)
\* rawText.replace(/\n\s*\n/g, "\n\n")
collapseBlankLines(s, at) ==
  IF at > Len(s) THEN Empty
  ELSE LET e == BlankLinesEnd(s, at)
       IN IF e = 0 THEN <<s[at]>> \o collapseBlankLines(s, at + 1)
          ELSE <<"\n", "\n">> \o collapseBlankLines(s, e)

RECURSIVE formatNumberedLists(_, _)
\* .replace(/(\d+\.)\s*/g, "\n$1 ")
formatNumberedLists(s, at) ==
  IF at > Len(s) THEN Empty
  ELSE LET d == DigitRun(s, at)
       IN IF d >= 1 /\ at + d <= Len(s) /\ s[at + d] = "."
          THEN <<"\n">> \o Slice(s, at, at + d) \o <<" ">>
               \o formatNumberedLists(s, at + d + 1 + WhiteRun(s, at + d + 1))
          ELSE <<s[at]>> \o formatNumberedLists(s, at + 1)

Stars == <<"*", "*">>

\* the length of the group of /\*\*(.*?)\*\*/ matched at position at, -1 if
\* there is no match: the shortest stretch without a line terminator that is
\* followed by "**"
BoldGroupLen(s, at) ==
  IF ~StartsAt(s, Stars, at) THEN 0 - 1
  ELSE LET ks == {k \in 0..Len(s) :
                    /\ StartsAt(s, Stars, at + 2 + k)
                    /\ \A i \in (at + 2)..(at + 1 + k) :
                          s[i] \notin LineTerminators}
       IN IF ks = {} THEN 0 - 1 ELSE CHOOSE k \in ks : \A i \in ks : k <= i

RECURSIVE trimBold(_, _)
\* .replace(/\*\*(.*?)\*\*/g, (_, match) => `**${match.trim()}**`)
trimBold(s, at) ==
  IF at > Len(s) THEN Empty
  ELSE LET k == BoldGroupLen(s, at)
       IN IF k < 0 THEN <<s[at]>> \o trimBold(s, at + 1)
          ELSE Stars \o trim(Slice(s, at + 2, at + 1 + k)) \o Stars
               \o trimBold(s, at + 4 + k)

\* formatExplanation(rawText), rawText a string
formatExplanation(rawText) ==
  trimBold(formatNumberedLists(collapseBlankLines(rawText, 1), 1), 1)

\* ------------------------------------------------------------------------
\* Values
\* ------------------------------------------------------------------------

\* a value that may be undefined
Undefined == [defined |-> FALSE, value |-> Empty]

Some(v) == [defined |-> TRUE, value |-> v]

\* JavaScript truthiness of a string that may be undefined
Truthy(o) == o.defined /\ o.value # Empty

\* an Error: message template, and the values interpolated into it
Error(tpl, model, status, detail, text) ==
  [tpl |-> tpl, model |-> model, status |-> status, detail |-> detail,
   text |-> text]

\* new Error(message) for a message that is a plain string
PlainError(message) == Error("${text}", "", 0, "", message)

\* new Error("...") for a fixed message
FixedError(tpl) == Error(tpl, "", 0, "", Empty)

\* vscode.window.showErrorMessage(error.message)
ErrorMessage(error) ==
  [sev |-> "error", tpl |-> error.tpl, model |-> error.model,
   status |-> error.status, detail |-> error.detail, text |-> error.text]

\* vscode.window.showErrorMessage / showInformationMessage of a template
\* with one interpolated string
Message(sev, tpl, text) ==
  [sev |-> sev, tpl |-> tpl, model |-> "", status |-> 0, detail |-> "",
   text |-> text]

Compilation == <<"c", "o", "m", "p", "i", "l", "a", "t", "i", "o", "n">>

Runtime == <<"r", "u", "n", "t", "i", "m", "e">>

\* "let retries = 3"
InitialRetries == 3

\* the default of config.get('model') || ...
DefaultModel == "mistralai/Mixtral-8x7B-Instruct-v0.1"

\* showErrorWithExplanation truncates the error to this many characters
TruncateAt == 200

\* ------------------------------------------------------------------------
\* The environment: what the user, the processes and the endpoint can do
\* ------------------------------------------------------------------------

PathA == <<"/", "d", "/", "A", ".", "j", "a", "v", "a">>

PathPlus == <<"/", "c", "+", "+", "/", "A", ".", "j", "a", "v", "a">>

PathBare == <<"A", ".", "j", "a", "v", "a">>

PathText == <<"/", "d", "/", "A", ".", "t", "x", "t">>

\* the file names a save event or the active editor can carry
FilePaths == {PathA, PathPlus, PathBare, PathText}

\* the filePath argument of handleJavaExecution (absent for the command)
FilePathArgs == {Undefined} \cup {Some(p) : p \in FilePaths}

\* editor?.document.fileName
EditorFiles == {Undefined, Some(PathA)}

KeyOne == <<"t", "g", "_", "k">>

\* what context.secrets holds under "togetherApiKey"
StoredKeys == {Undefined, Some(KeyOne)}

\* what the user can type into the input box (undefined: dismissed)
TypedKeys == {Undefined, Some(Empty), Some(<<"k", "2">>), Some(<<"k", "3">>)}

\* the errorSimplifier.model setting ("" when unset)
ConfiguredModels == {"", "codellama/CodeLlama-7b-Instruct-hf"}

ErrorLine == <<":", "3", ":", " ", "e", "r", "r", "\n">>

NoteLine == Note \o <<" ", "h", "\n">>

\* what the javac process can end with
JavacResults(path) ==
  {[code |-> 0, stdout |-> Empty, stderr |-> Empty],
   [code |-> 0, stdout |-> Empty, stderr |-> NoteLine],
   [code |-> 1, stdout |-> Empty, stderr |-> path \o ErrorLine \o NoteLine],
   [code |-> 1, stdout |-> Empty, stderr |-> Empty]}

\* what the java process can end with
JavaResults(dir) ==
  {[code |-> 0, stdout |-> <<"h", "i">>, stderr |-> Empty],
   [code |-> 0, stdout |-> <<"h", "i">>, stderr |-> <<"W", " ">> \o dir],
   [code |-> 1, stdout |-> Empty, stderr |-> <<"E", "x", " ">> \o dir]}

\* the texts a chat completion can carry
Contents ==
  {Empty, <<"o", "k">>, <<"1", ".", " ", "a", "\n", "\n", "\n", "b">>}

StatusText(status) ==
  CASE status = 200 -> "OK"
    [] status = 401 -> "Unauthorized"
    [] status = 404 -> "Not Found"
    [] status = 429 -> "Too Many Requests"
    [] status = 500 -> "Internal Server Error"
    [] OTHER -> ""

\* the HTTP statuses the endpoint answers with
Statuses == {200, 401, 404, 429, 500}

\* the shapes of response.data: the content present, or choices, message or
\* content missing
Shapes == {"content", "noChoices", "noMessage", "noContent"}

HttpResponse(status, shape, content) ==
  [type |-> "response", status |-> status, statusText |-> StatusText(status),
   shape |-> shape, content |-> content, message |-> ""]

\* the outcomes of one axios.post: a response, a request without response
\* (err.request only), or an error before the request was sent
Outcomes ==
  {HttpResponse(200, "content", c) : c \in Contents}
  \cup {HttpResponse(200, sh, Empty) : sh \in Shapes \ {"content"}}
  \cup {HttpResponse(st, "noChoices", Empty) : st \in Statuses \ {200}}
  \cup {[type |-> "noResponse", status |-> 0, statusText |-> "",
         shape |-> "noChoices", content |-> Empty,
         message |-> "timeout of 30000ms exceeded"],
        [type |-> "setupError", status |-> 0, statusText |-> "",
         shape |-> "noChoices", content |-> Empty,
         message |-> "Invalid URL"]}

\* ------------------------------------------------------------------------
\* Pieces of getErrorExplanation, compileJava and runJava
\* ------------------------------------------------------------------------

\* Rejects as it would be if the presence of stderr text were the trigger
Rejects_OnStderr(result) == result.stderr # Empty

\* promisify(exec): the promise is rejected when the process exits non-zero
Rejects(result) == result.code # 0

CommandFailed ==
  <<"C", "o", "m", "m", "a", "n", "d", " ", "f", "a", "i", "l", "e", "d",
    ":", " ">>

\* the command line of compileJava: `javac "${filePath}"`
JavacCommand(path) ==
  <<"j", "a", "v", "a", "c", " ", "\"">> \o path \o <<"\"">>

\* the command line of runJava: `java -cp "${fileDir}" ${className}`
JavaCommand(dir, name) ==
  <<"j", "a", "v", "a", " ", "-", "c", "p", " ", "\"">> \o dir
  \o <<"\"", " ">> \o name

\* error.message of the error a rejected execAsync carries
ExecErrorMessage(command, result) ==
  CommandFailed \o command \o <<"\n">> \o result.stderr

\* RunSucceeded as it would be without "if (stderr) throw new Error(stderr)"
RunSucceeded_IgnoresStderr(result) == ~Rejects(result)

\* runJava returns stdout: execAsync resolved and stderr is empty
RunSucceeded(result) == ~Rejects(result) /\ result.stderr = Empty

\* the error the catch block of runJava sees: the rejection of execAsync, or
\* new Error(stderr) when the process exited zero with text on stderr
RunError(command, result) ==
  IF Rejects(result) THEN PlainError(ExecErrorMessage(command, result))
  ELSE PlainError(result.stderr)

\* axios resolves the promise for a 2xx status and rejects it otherwise
Resolves(outcome) ==
  outcome.type = "response" /\ outcome.status >= 200 /\ outcome.status < 300

\* response.data.choices[0].message.content is a string
HasContent(outcome) == Resolves(outcome) /\ outcome.shape = "content"

\* the TypeError of reading response.data.choices[0].message.content, or of
\* rawText.replace in formatExplanation, when a part is missing
TypeErrorMessage(shape) ==
  CASE shape = "noChoices"
         -> "Cannot read properties of undefined (reading '0')"
    [] shape = "noMessage"
         -> "Cannot read properties of undefined (reading 'content')"
    [] OTHER -> "Cannot read properties of undefined (reading 'replace')"

\* the err the catch block of getErrorExplanation sees for an axios.post
\* that did not end in a returned explanation
CaughtError(outcome) ==
  IF Resolves(outcome)
  THEN [response |-> FALSE, request |-> FALSE, status |-> 0,
        statusText |-> "", message |-> TypeErrorMessage(outcome.shape)]
  ELSE IF outcome.type = "response"
  THEN [response |-> TRUE, request |-> TRUE, status |-> outcome.status,
        statusText |-> outcome.statusText,
        message |-> "Request failed with status code"]
  ELSE [response |-> FALSE, request |-> outcome.type = "noResponse",
        status |-> 0, statusText |-> "", message |-> outcome.message]

\* IsRateLimitRetry as it would be if server errors were retried as well
IsRateLimitRetry_ServerErrors(err, retries) ==
  err.response /\ err.status \in {429, 500} /\ retries > 0

\* err.response?.status === 429 && retries > 0
IsRateLimitRetry(err, retries) ==
  err.response /\ err.status = 429 /\ retries > 0

RECURSIVE Pow2(_)
Pow2(n) == IF n <= 0 THEN 1 ELSE 2 * Pow2(n - 1)

\* const delay = Math.pow(2, 4 - retries) * 1000
BackoffDelay(retries) == Pow2(4 - retries) * 1000

\* FailureOf as it would be if err.request were tested before err.response
FailureOf_RequestFirst(err, model) ==
  IF err.request
  THEN FixedError("No response from API. Check your internet connection.")
  ELSE IF err.response
  THEN IF err.status = 401
       THEN FixedError(
              "Invalid API key. Please check your Together.ai API key.")
       ELSE IF err.status = 404
       THEN Error("Model ${model} not found. Check your model name.",
                  model, 0, "", Empty)
       ELSE Error("API Error: ${status} - ${detail}", "", err.status,
                  err.statusText, Empty)
  ELSE Error("API Request Error: ${detail}", "", 0, err.message, Empty)

\* the error thrown for an err that is not retried
FailureOf(err, model) ==
  IF err.response
  THEN IF err.status = 401
       THEN FixedError(
              "Invalid API key. Please check your Together.ai API key.")
       ELSE IF err.status = 404
       THEN Error("Model ${model} not found. Check your model name.",
                  model, 0, "", Empty)
       ELSE Error("API Error: ${status} - ${detail}", "", err.status,
                  err.statusText, Empty)
  ELSE IF err.request
  THEN FixedError("No response from API. Check your internet connection.")
  ELSE Error("API Request Error: ${detail}", "", 0, err.message, Empty)

\* the error thrown after the while loop
RetriesExhausted == FixedError("API request failed after multiple retries")

\* truncatedError of showErrorWithExplanation
Truncated(error) ==
  IF Len(error) > TruncateAt
  THEN Slice(error, 1, TruncateAt) \o <<".", ".", ".">>
  ELSE error

\* the notification of showErrorWithExplanation
JavaErrorMessage(error) ==
  Message("error", "Java Error: ${text}", Truncated(error))

\* ------------------------------------------------------------------------
\* State
\* ------------------------------------------------------------------------

VARIABLES
  secrets,     \* context.secrets, key "togetherApiKey"
  config,      \* the errorSimplifier.model setting
  pc,          \* where the invocation of handleJavaExecution stands
  filePath,    \* filePath of handleJavaExecution
  apiKey,      \* apiKey of handleJavaExecution
  step,        \* the step whose catch block was entered: compile or run
  caught,      \* error of that catch block, thrown again after the handler
  cleanError,  \* cleanError of handleCompilationError / handleRuntimeError
  call,        \* parameters and locals of the getErrorExplanation call
  outcome,     \* how the getErrorExplanation call ended
  httpLog,     \* every axios.post of the invocation: request and outcome
  sleeps,      \* every backoff delay slept, in milliseconds
  explCalls,   \* every getErrorExplanation call: step and arguments
  procCalls,   \* every execAsync call: command and result
  messages,    \* every notification shown, in order
  modal,       \* the explanation behind a pending "Show Explanation" button
  other,       \* the locals of a second, overlapping invocation while the
               \* event loop runs this one
  probe        \* a pure function applied on its own: arguments and results

vars ==
  <<secrets, config, pc, filePath, apiKey, step, caught, cleanError, call,
    outcome, httpLog, sleeps, explCalls, procCalls, messages, modal, other,
    probe>>

NoError == FixedError("")

NoCall ==
  [errorType |-> Empty, errorText |-> Empty, apiKey |-> Empty, model |-> "",
   retries |-> 0]

NoOutcome == [state |-> "none", explanation |-> Empty, error |-> NoError]

\* the locals of an invocation that has not started
NotStarted ==
  [pc |-> "idle", filePath |-> Empty, apiKey |-> Empty, step |-> "none",
   caught |-> NoError, cleanError |-> Empty, call |-> NoCall,
   outcome |-> NoOutcome, httpLog |-> <<>>, sleeps |-> <<>>,
   explCalls |-> <<>>, procCalls |-> <<>>, messages |-> <<>>,
   modal |-> Undefined]

\* no pure function is applied on its own
NoProbe ==
  [stage |-> "none", text |-> Empty, path |-> Empty, once |-> Empty,
   twice |-> Empty, threw |-> FALSE]

Init ==
  /\ other = NotStarted
  /\ probe = NoProbe
  /\ secrets \in StoredKeys
  /\ config \in ConfiguredModels
  /\ pc = "idle"
  /\ filePath = Empty
  /\ apiKey = Empty
  /\ step = "none"
  /\ caught = NoError
  /\ cleanError = Empty
  /\ call = NoCall
  /\ outcome = NoOutcome
  /\ httpLog = <<>>
  /\ sleeps = <<>>
  /\ explCalls = <<>>
  /\ procCalls = <<>>
  /\ messages = <<>>
  /\ modal = Undefined

\* ------------------------------------------------------------------------
\* handleJavaExecution and getApiKey
\* ------------------------------------------------------------------------

\* Catch as it would be with an empty catch block: the error is swallowed
Catch_Silent(error) ==
  /\ messages' = messages
  /\ pc' = "done"

\* the catch block of handleJavaExecution: showErrorMessage(error.message)
Catch(error) ==
  /\ messages' = Append(messages, ErrorMessage(error))
  /\ pc' = "done"

ApiKeyRequired == FixedError("API key is required to use this extension")

\* handleJavaExecution up to the first prompt or process: the file check,
\* then getApiKey's read of the secret store
HandleJavaExecution ==
  /\ pc = "idle"
  /\ UNCHANGED <<other, probe>>
  /\ \E arg \in FilePathArgs, editorFile \in EditorFiles :
       LET path == IF Truthy(arg) THEN arg ELSE editorFile
       IN IF ~Truthy(path) \/ ~endsWith(path.value, DotJava)
          THEN /\ messages' = Append(messages,
                    Message("error", "Please open a Java file first", Empty))
               /\ pc' = "done"
               /\ UNCHANGED <<filePath, apiKey>>
          ELSE /\ filePath' = path.value
               /\ IF Truthy(secrets)
                  THEN /\ apiKey' = secrets.value
                       /\ pc' = "compile"
                       /\ UNCHANGED messages
                  ELSE /\ messages' = Append(messages,
                            Message("error", "Together.ai API key required!",
                                    Empty))
                       /\ pc' = "keyPrompt"
                       /\ UNCHANGED apiKey
  /\ UNCHANGED <<secrets, config, step, caught, cleanError, call, outcome,
                 httpLog, sleeps, explCalls, procCalls, modal>>

\* getApiKey: the user answers the "API key required" notification
KeyPrompt ==
  /\ pc = "keyPrompt"
  /\ UNCHANGED <<other, probe>>
  /\ \E choice \in {"Enter API Key", ""} :
       IF choice = "Enter API Key"
       THEN pc' = "keyInput" /\ UNCHANGED messages
       ELSE Catch(ApiKeyRequired)
  /\ UNCHANGED <<secrets, config, filePath, apiKey, step, caught, cleanError,
                 call, outcome, httpLog, sleeps, explCalls, procCalls, modal>>

\* a getApiKey that takes any answer of the input box for a key
KeyEntered_AnyAnswer(typed) == typed.defined

\* "if (apiKey)" on the answer of the input box
KeyEntered(typed) == Truthy(typed)

\* getApiKey: the user answers the input box
KeyInput ==
  /\ pc = "keyInput"
  /\ UNCHANGED <<other, probe>>
  /\ \E typed \in TypedKeys :
       IF KeyEntered(typed)
       THEN /\ secrets' = typed
            /\ apiKey' = typed.value
            /\ pc' = "compile"
            /\ UNCHANGED messages
       ELSE /\ Catch(ApiKeyRequired)
            /\ UNCHANGED <<secrets, apiKey>>
  /\ UNCHANGED <<config, filePath, step, caught, cleanError, call, outcome,
                 httpLog, sleeps, explCalls, procCalls, modal>>

\* ------------------------------------------------------------------------
\* compileJava, runJava and their handlers
\* ------------------------------------------------------------------------

\* a getErrorExplanation that reads the key from the secret store when it
\* is called, instead of taking the one passed to it
getErrorExplanation_RereadsStore(errorType, errorText, key) ==
  /\ call' = [errorType |-> errorType, errorText |-> errorText,
              apiKey |-> secrets.value,
              model |-> IF config = "" THEN DefaultModel ELSE config,
              retries |-> InitialRetries]
  /\ explCalls' = Append(explCalls,
                         [step |-> step', errorType |-> errorType,
                          errorText |-> errorText, apiKey |-> secrets.value])
  /\ pc' = "sending"

\* getErrorExplanation(errorType, errorText, apiKey) up to the first
\* axios.post: the model is read and the retry counter set
getErrorExplanation(errorType, errorText, key) ==
  /\ call' = [errorType |-> errorType, errorText |-> errorText,
              apiKey |-> key,
              model |-> IF config = "" THEN DefaultModel ELSE config,
              retries |-> InitialRetries]
  /\ explCalls' = Append(explCalls,
                         [step |-> step', errorType |-> errorType,
                          errorText |-> errorText, apiKey |-> key])
  /\ pc' = "sending"

\* handleCompilationError(errorOutput, filePath, apiKey) up to the first
\* axios.post; a throw of cleanJavaError reaches handleJavaExecution's catch
handleCompilationError(errorOutput, path, key) ==
  LET cleaned == cleanJavaError(errorOutput, path)
  IN IF cleaned.threw
     THEN /\ Catch(cleaned.error)
          /\ UNCHANGED <<cleanError, call, explCalls>>
     ELSE /\ cleanError' = cleaned.value
          /\ getErrorExplanation(cleaned.value, Compilation, key)
          /\ UNCHANGED messages

\* handleRuntimeError(errorOutput, fileDir, apiKey), likewise
handleRuntimeError(errorOutput, fileDir, key) ==
  LET cleaned == cleanJavaError(errorOutput, fileDir)
  IN IF cleaned.threw
     THEN /\ Catch(cleaned.error)
          /\ UNCHANGED <<cleanError, call, explCalls>>
     ELSE /\ cleanError' = cleaned.value
          /\ getErrorExplanation(cleaned.value, Runtime, key)
          /\ UNCHANGED messages

\* compileJava(filePath, apiKey): javac runs; a resolved execAsync returns
\* its stderr, which executeJavaWithErrors drops, and the run step is next;
\* a rejected one enters the catch block
CompileJava ==
  /\ pc = "compile"
  /\ UNCHANGED <<other, probe>>
  /\ \E result \in JavacResults(filePath) :
       /\ procCalls' = Append(procCalls,
                              [command |-> "javac", result |-> result])
       /\ IF Rejects(result)
          THEN /\ step' = "compile"
               /\ caught' = PlainError(
                              ExecErrorMessage(JavacCommand(filePath), result))
               /\ handleCompilationError(result.stderr, filePath, apiKey)
          ELSE /\ pc' = "run"
               /\ UNCHANGED <<step, caught, cleanError, call, explCalls,
                              messages>>
  /\ UNCHANGED <<secrets, config, filePath, apiKey, outcome, httpLog, sleeps,
                 modal>>

\* runJava(fileDir, className, apiKey): java runs; stdout is shown when the
\* process exits zero with an empty stderr, the catch block is entered
\* otherwise
RunJava ==
  /\ pc = "run"
  /\ UNCHANGED <<other, probe>>
  /\ \E result \in JavaResults(ParseDir(filePath)) :
       LET fileDir == ParseDir(filePath)
           error == RunError(JavaCommand(fileDir, ParseName(filePath)), result)
       IN /\ procCalls' = Append(procCalls,
                                 [command |-> "java", result |-> result])
          /\ IF RunSucceeded(result)
             THEN /\ messages' = Append(messages,
                       Message("info", "Program Output:\n${text}",
                               result.stdout))
                  /\ pc' = "done"
                  /\ UNCHANGED <<step, caught, cleanError, call, explCalls>>
             ELSE /\ step' = "run"
                  /\ caught' = error
                  /\ handleRuntimeError(error.text, fileDir, apiKey)
  /\ UNCHANGED <<secrets, config, filePath, apiKey, outcome, httpLog, sleeps,
                 modal>>

\* ------------------------------------------------------------------------
\* The retry loop of getErrorExplanation
\* ------------------------------------------------------------------------

\* Explained as it would be if the catch block of compileJava did not throw
\* its error again: compileJava returns and the run step is next
Explained_NoRethrow(explanation) ==
  /\ outcome' = [state |-> "success", explanation |-> explanation,
                 error |-> NoError]
  /\ modal' = Some(explanation)
  /\ IF step = "compile"
     THEN /\ messages' = Append(messages, JavaErrorMessage(cleanError))
          /\ pc' = "run"
     ELSE /\ messages' = messages \o <<JavaErrorMessage(cleanError),
                                       ErrorMessage(caught)>>
          /\ pc' = "done"

\* getErrorExplanation returned: showErrorWithExplanation(cleanError,
\* explanation) notifies, then the catch block of compileJava / runJava
\* throws its error again and handleJavaExecution's catch shows it
Explained(explanation) ==
  /\ outcome' = [state |-> "success", explanation |-> explanation,
                 error |-> NoError]
  /\ messages' = messages \o <<JavaErrorMessage(cleanError),
                               ErrorMessage(caught)>>
  /\ modal' = Some(explanation)
  /\ pc' = "done"

\* getErrorExplanation threw: the error passes through the handler and the
\* catch block of compileJava / runJava to handleJavaExecution's catch
Thrown(error) ==
  /\ outcome' = [state |-> "failure", explanation |-> Empty, error |-> error]
  /\ Catch(error)
  /\ UNCHANGED modal

\* the request one axios.post sends
Request ==
  [model |-> call.model, errorType |-> call.errorType,
   errorText |-> call.errorText, apiKey |-> call.apiKey]

\* one pass of the while loop up to its next await: axios.post, then the
\* return of the formatted content, the start of a backoff sleep, or a throw
AxiosPost ==
  /\ pc = "sending"
  /\ UNCHANGED <<other, probe>>
  /\ \E response \in Outcomes :
       /\ httpLog' = Append(httpLog,
                            [request |-> Request, response |-> response])
       /\ IF HasContent(response)
          THEN /\ Explained(formatExplanation(response.content))
               /\ UNCHANGED sleeps
          ELSE LET err == CaughtError(response)
               IN IF IsRateLimitRetry(err, call.retries)
                  THEN /\ sleeps' = Append(sleeps, BackoffDelay(call.retries))
                       /\ pc' = "backoff"
                       /\ UNCHANGED <<outcome, messages, modal>>
                  ELSE /\ Thrown(FailureOf(err, call.model))
                       /\ UNCHANGED sleeps
  /\ UNCHANGED <<secrets, config, filePath, apiKey, step, caught, cleanError,
                 call, explCalls, procCalls>>

\* the backoff sleep ends: retries--, continue; the loop is left when the
\* counter reaches zero and the error after the loop is thrown
Backoff ==
  /\ pc = "backoff"
  /\ UNCHANGED <<other, probe>>
  /\ call' = [call EXCEPT !.retries = call.retries - 1]
  /\ IF call'.retries > 0
     THEN /\ pc' = "sending"
          /\ UNCHANGED <<outcome, messages, modal>>
     ELSE Thrown(RetriesExhausted)
  /\ UNCHANGED <<secrets, config, filePath, apiKey, step, caught, cleanError,
                 httpLog, sleeps, explCalls, procCalls>>

\* showErrorWithExplanation's then-callback: the user presses "Show
\* Explanation" or dismisses the notification
ShowExplanationChoice ==
  /\ modal.defined
  /\ UNCHANGED <<other, probe>>
  /\ \E choice \in {"Show Explanation", ""} :
       messages' = IF choice = "Show Explanation"
                   THEN Append(messages,
                               Message("info", "Error Explanation:\n\n${text}",
                                       modal.value))
                   ELSE messages
  /\ modal' = Undefined
  /\ UNCHANGED <<secrets, config, pc, filePath, apiKey, step, caught,
                 cleanError, call, outcome, httpLog, sleeps, explCalls,
                 procCalls>>

Next ==
  \/ HandleJavaExecution
  \/ KeyPrompt
  \/ KeyInput
  \/ CompileJava
  \/ RunJava
  \/ AxiosPost
  \/ Backoff
  \/ ShowExplanationChoice

Spec == Init /\ [][Next]_vars

\* ------------------------------------------------------------------------
\* Vocabulary of the properties
\* ------------------------------------------------------------------------

\* the getErrorExplanation call has returned or thrown
CallEnded == outcome.state # "none"

\* the outcome of the i-th axios.post
ResponseAt(i) == httpLog[i].response

\* a rate-limit response
IsRateLimit(r) == r.type = "response" /\ r.status = 429

\* the failure kind a thrown error stands for
FailureKind(error) ==
  CASE error.tpl = "Invalid API key. Please check your Together.ai API key."
         -> "InvalidCredential"
    [] error.tpl = "Model ${model} not found. Check your model name."
         -> "ModelNotFound"
    [] error.tpl = "API Error: ${status} - ${detail}" -> "Unknown"
    [] error.tpl = "No response from API. Check your internet connection."
         -> "NoResponse"
    [] error.tpl = "API Request Error: ${detail}" -> "Transport"
    [] error.tpl = "API request failed after multiple retries"
         -> "RateLimited"
    [] OTHER -> "None"

RECURSIVE SumOf(_)
SumOf(seq) == IF seq = <<>> THEN 0 ELSE Head(seq) + SumOf(Tail(seq))

\* the execAsync calls of one command
CallsOf(command) ==
  {i \in 1..Len(procCalls) : procCalls[i].command = command}

JavaInvoked == CallsOf("java") # {}

\* the javac process has ended with this exit-code class
JavacExited(failed) ==
  \E i \in CallsOf("javac") : (procCalls[i].result.code # 0) = failed

\* the number of process steps that failed: javac rejected, java rejected
\* or java with text on stderr
FailedSteps ==
  Cardinality({i \in 1..Len(procCalls) :
                 \/ procCalls[i].result.code # 0
                 \/ /\ procCalls[i].command = "java"
                    /\ procCalls[i].result.stderr # Empty})

\* ------------------------------------------------------------------------
\* C1 .. C10
\* ------------------------------------------------------------------------

\* C1: a getErrorExplanation call whose first three attempts are answered
\* with HTTP 429 makes a fourth attempt, and when that one succeeds the call
\* returns the explanation after exactly 4 attempts.
C1_SuccessOnFourthAttempt ==
  (CallEnded /\ Len(httpLog) >= 3 /\ \A i \in 1..3 : IsRateLimit(ResponseAt(i)))
    => /\ Len(httpLog) = 4
       /\ HasContent(ResponseAt(4)) => outcome.state = "success"

\* C2: a getErrorExplanation call all of whose attempts are answered with
\* HTTP 429 ends with a RateLimited failure after exactly 4 attempts.
C2_RateLimitedAfterFourAttempts ==
  (/\ CallEnded
   /\ Len(httpLog) >= 1
   /\ \A i \in 1..Len(httpLog) : IsRateLimit(ResponseAt(i)))
    => /\ outcome.state = "failure"
       /\ FailureKind(outcome.error) = "RateLimited"
       /\ Len(httpLog) = 4

\* C3: the backoff sleeps of one call are 1 s, 2 s and 4 s, in this order,
\* so their sum never exceeds 7 s.
C3_BackoffSchedule ==
  /\ \A i \in 1..Len(sleeps) : sleeps[i] = Pow2(i - 1) * 1000
  /\ SumOf(sleeps) <= 7000

\* C4: once compileJava has routed a failed javac to the explanation path,
\* the java process is never started in that invocation, whether the
\* explanation succeeds or fails.
C4_NoRunAfterCompileFailure ==
  JavacExited(TRUE) => (~JavaInvoked /\ pc # "run" /\ step = "compile")

\* a compile failure with text on stderr was explained, the explanation was
\* presented, and the invocation is over
C4_Witness ==
  /\ pc = "done"
  /\ \E i \in CallsOf("javac") :
       procCalls[i].result.code # 0 /\ procCalls[i].result.stderr # Empty
  /\ outcome.state = "success"

C6_CleanErrorShownOnFailure ==
  (pc = "done" /\ outcome.state = "failure")
    => \E i \in 1..Len(messages) : messages[i] = JavaErrorMessage(cleanError)

\* C7: an attempt that fails with anything but HTTP 429 is the last attempt
\* of the call: the call has ended in failure, and every sleep of the call
\* was the one after an earlier HTTP 429.
C7_OnlyRateLimitRetried ==
  \A i \in 1..Len(httpLog) :
    (~HasContent(ResponseAt(i)) /\ ~IsRateLimit(ResponseAt(i)))
      => /\ i = Len(httpLog)
         /\ pc = "done"
         /\ outcome.state = "failure"
         /\ Len(sleeps) = i - 1

\* the second attempt of a call got HTTP 500 after a rate-limited first one
C7_Witness ==
  /\ Len(httpLog) = 2
  /\ IsRateLimit(ResponseAt(1))
  /\ ResponseAt(2).type = "response" /\ ResponseAt(2).status = 500
  /\ Len(sleeps) = 1

\* C8: the failure a call ends with is fixed by the class of its last
\* outcome: HTTP 429 (budget exhausted) RateLimited, 401 InvalidCredential,
\* 404 ModelNotFound naming the requested model, any other HTTP error
\* Unknown with status and status text, no response NoResponse, an error
\* before the request Transport with the error text.
C8_FailureMapping ==
  (outcome.state = "failure" /\ ~Resolves(ResponseAt(Len(httpLog))))
    => LET r == ResponseAt(Len(httpLog))
           e == outcome.error
           kind == FailureKind(e)
       IN CASE IsRateLimit(r) -> kind = "RateLimited"
            [] r.type = "response" /\ r.status = 401
                 -> kind = "InvalidCredential"
            [] r.type = "response" /\ r.status = 404
                 -> /\ kind = "ModelNotFound"
                    /\ e.model = httpLog[Len(httpLog)].request.model
            [] r.type = "response" /\ r.status \notin {401, 404, 429}
                 -> /\ kind = "Unknown"
                    /\ e.status = r.status
                    /\ e.detail = r.statusText
            [] r.type = "noResponse" -> kind = "NoResponse"
            [] r.type = "setupError"
                 -> kind = "Transport" /\ e.detail = r.message

\* a call ended on HTTP 404 after a rate-limited attempt, and the error names
\* the model set in the configuration
C8_Witness ==
  /\ outcome.state = "failure"
  /\ Len(httpLog) = 2
  /\ ResponseAt(2).type = "response" /\ ResponseAt(2).status = 404
  /\ FailureKind(outcome.error) = "ModelNotFound"
  /\ config # "" /\ outcome.error.model = config

\* C9: a 2xx response whose payload is empty or missing ends the call with
\* failure kind Unknown and message "Empty response".
C9_EmptyResponseIsUnknown ==
  (/\ CallEnded
   /\ Resolves(ResponseAt(Len(httpLog)))
   /\ \/ ResponseAt(Len(httpLog)).shape # "content"
      \/ ResponseAt(Len(httpLog)).content = Empty)
    => /\ outcome.state = "failure"
       /\ FailureKind(outcome.error) = "Unknown"
       /\ outcome.error.detail = "Empty response"

\* C10: one getErrorExplanation call per failed process step, none when both
\* steps succeed, and never one for the compile step and one for the run
\* step.
C10_OneExplanationPerFailedStep ==
  /\ Len(explCalls) = FailedSteps
  /\ ~(\E i, j \in 1..Len(explCalls) :
         explCalls[i].step = "compile" /\ explCalls[j].step = "run")

\* ------------------------------------------------------------------------
\* C11 .. C20
\* ------------------------------------------------------------------------

\* every process call and network call returns, and every backoff timer
\* fires; the user may leave a prompt unanswered
FairSpec ==
  /\ Spec
  /\ WF_vars(CompileJava)
  /\ WF_vars(RunJava)
  /\ WF_vars(AxiosPost)
  /\ WF_vars(Backoff)

\* the success notification of executeJavaWithErrors has been shown
ProgramOutputShown ==
  \E i \in 1..Len(messages) : messages[i].tpl = "Program Output:\n${text}"

\* the invocation has hit a failure: a process step failed, the credential
\* is missing, or the invocation ended without the success notification
FailureHit ==
  \/ step # "none"
  \/ pc \in {"keyPrompt", "keyInput"}
  \/ pc = "done" /\ ~ProgramOutputShown

\* an error notification is on screen
Notified == \E i \in 1..Len(messages) : messages[i].sev = "error"

\* C11: every invocation that hits a failure eventually shows the user an
\* error notification, provided process and network calls return.
C11_FailureLeadsToMessage == FailureHit ~> Notified

\* a run-step failure whose explanation call failed, too, ended notified
C11_Witness ==
  /\ pc = "done"
  /\ step = "run"
  /\ outcome.state = "failure"
  /\ Notified

\* ------------------------------------------------------------------------
\* cleanJavaError applied on its own, once and then to its own result
\* ------------------------------------------------------------------------

\* the texts are made of at most this many pieces
MaxPieces == 4

\* what the error texts are made of
TextPieces == {<<"a">>, <<"b">>, <<".">>, <<"\n">>, Note}

RECURSIVE Concats(_)
\* the texts of at most n pieces
Concats(n) ==
  IF n = 0 THEN {Empty}
  ELSE LET shorter == Concats(n - 1)
       IN shorter \cup {piece \o t : piece \in TextPieces, t \in shorter}

RawTexts == Concats(MaxPieces)

\* the context paths: plain ones, and ones with "." and "+" in them
ContextPaths ==
  {Empty, <<"a">>, <<"a", "b">>, <<".">>, <<"a", ".">>, <<"a", "+">>,
   <<"+">>, <<"b", "+", "+">>}

\* no invocation is under way
NoInvocation ==
  /\ secrets = Undefined
  /\ config = ""
  /\ other = NotStarted
  /\ pc = "idle"
  /\ filePath = Empty
  /\ apiKey = Empty
  /\ step = "none"
  /\ caught = NoError
  /\ cleanError = Empty
  /\ call = NoCall
  /\ outcome = NoOutcome
  /\ httpLog = <<>>
  /\ sleeps = <<>>
  /\ explCalls = <<>>
  /\ procCalls = <<>>
  /\ messages = <<>>
  /\ modal = Undefined

invocationVars ==
  <<secrets, config, pc, filePath, apiKey, step, caught, cleanError, call,
    outcome, httpLog, sleeps, explCalls, procCalls, messages, modal, other>>

CleanInit ==
  /\ NoInvocation
  /\ \E text \in RawTexts, path \in ContextPaths :
       probe = [stage |-> "args", text |-> text, path |-> path,
                once |-> Empty, twice |-> Empty, threw |-> FALSE]

\* cleanJavaError(text, path)
CleanOnce ==
  /\ probe.stage = "args"
  /\ LET cleaned == cleanJavaError(probe.text, probe.path)
     IN probe' = [probe EXCEPT !.stage = "once", !.once = cleaned.value,
                               !.threw = cleaned.threw]
  /\ UNCHANGED invocationVars

\* cleanJavaError(cleanJavaError(text, path), path)
CleanTwice ==
  /\ probe.stage = "once"
  /\ ~probe.threw
  /\ probe' = [probe EXCEPT !.stage = "twice",
                            !.twice = cleanJavaError(probe.once,
                                                     probe.path).value]
  /\ UNCHANGED invocationVars

CleanNext ==
  \/ CleanOnce
  \/ CleanTwice

CleanSpec == CleanInit /\ [][CleanNext]_vars

\* the pattern built from the path matches nowhere in s
NoMatchLeft(s, path) == replace(s, RegExp(path).atoms, Empty) = s

\* C12, as stated: cleaning the cleaned text again changes nothing.
C12_Idempotent == probe.stage = "twice" => probe.twice = probe.once

\* C12, amended: cleaning the cleaned text again changes nothing when the
\* first result holds no further match of the context path; where the
\* removal of an occurrence has joined its neighbours into a new one, the
\* second application removes that one, too.
C12_IdempotentWithoutNewMatch ==
  (probe.stage = "twice" /\ NoMatchLeft(probe.once, probe.path))
    => probe.twice = probe.once

\* a text with the path and a Note line in it was cleaned twice, and the
\* first cleaning had removed something
C12_Witness ==
  /\ probe.stage = "twice"
  /\ probe.path # Empty
  /\ includes(probe.text, probe.path)
  /\ includes(probe.text, Note)
  /\ NoMatchLeft(probe.once, probe.path)
  /\ probe.once # probe.text
  /\ probe.once # Empty

RECURSIVE removeLiteral(_, _, _)
\* s without the literal occurrences of p, from position at on
removeLiteral(s, p, at) ==
  IF at > Len(s) THEN Empty
  ELSE IF p # Empty /\ StartsAt(s, p, at)
  THEN removeLiteral(s, p, at + Len(p))
  ELSE <<s[at]>> \o removeLiteral(s, p, at + 1)

\* the reference: literal occurrences removed, Note lines dropped, trimmed
LiteralClean(text, path) ==
  LET keep(line) == ~includes(line, Note)
  IN trim(join(SelectSeq(split(removeLiteral(text, path, 1), "\n"), keep),
               "\n"))

\* C13: cleanJavaError never fails, and its result is that of the literal
\* reference, whatever characters the path holds.
C13_PathIsLiteral ==
  probe.stage \in {"once", "twice"}
    => /\ ~probe.threw
       /\ probe.once = LiteralClean(probe.text, probe.path)

\* the java process has ended with this result
JavaEndedWith(result) ==
  \E i \in CallsOf("java") : procCalls[i].result = result

ExplanationPieces ==
  {<<"a">>, <<"\n">>, <<" ">>, <<"1", ".">>, <<"2">>, Stars}

RECURSIVE Explanations(_)
\* the explanations of at most n pieces
Explanations(n) ==
  IF n = 0 THEN {Empty}
  ELSE LET shorter == Explanations(n - 1)
       IN shorter \cup {piece \o t : piece \in ExplanationPieces,
                                     t \in shorter}

FormatInit ==
  /\ NoInvocation
  /\ \E text \in Explanations(MaxPieces) :
       probe = [stage |-> "args", text |-> text, path |-> Empty,
                once |-> Empty, twice |-> Empty, threw |-> FALSE]

\* formatExplanation(text)
FormatExplanation ==
  /\ probe.stage = "args"
  /\ probe' = [probe EXCEPT !.stage = "once",
                            !.once = formatExplanation(probe.text)]
  /\ UNCHANGED invocationVars

FormatNext == FormatExplanation

FormatSpec == FormatInit /\ [][FormatNext]_vars

\* s holds more than one blank line in a row: three newlines with nothing
\* but blanks between them
MultipleBlankLines(s) ==
  \E i, j, k \in 1..Len(s) :
    /\ i < j /\ j < k
    /\ s[i] = "\n" /\ s[j] = "\n" /\ s[k] = "\n"
    /\ \A m \in i..k : s[m] \in WhiteSpace

\* a numbered-list marker (digits, then a period) starts at position at
MarkerAt(s, at) ==
  /\ s[at] \in Digits
  /\ at = 1 \/ s[at - 1] \notin Digits
  /\ at + DigitRun(s, at) <= Len(s)
  /\ s[at + DigitRun(s, at)] = "."

\* C15: the formatted explanation holds no run of more than one blank line,
\* and each of its numbered-list markers is the first thing on its line.
C15_FormattedLayout ==
  probe.stage = "once"
    => /\ ~MultipleBlankLines(probe.once)
       /\ \A at \in 1..Len(probe.once) :
            MarkerAt(probe.once, at) => (at = 1 \/ probe.once[at - 1] = "\n")

\* ------------------------------------------------------------------------
\* C16: the state machine of one getErrorExplanation call
\* ------------------------------------------------------------------------

\* C16: the only transition out of a backoff sleep is to another HTTP
\* attempt (a call never sleeps and then fails without sending), and one
\* call sleeps at most 3 times.
C16_BackoffLeadsToSending ==
  [][/\ pc = "backoff" => pc' = "sending"
     /\ Len(sleeps') <= InitialRetries]_vars

\* ------------------------------------------------------------------------
\* C17: what an explanation request names
\* ------------------------------------------------------------------------

\* the error kind of the step that failed
KindOf(failed) == IF failed = "compile" THEN Compilation ELSE Runtime

\* C17: every request sent names the kind of the failed step in the
\* error-kind position of the prompt and carries the cleaned error text of
\* that step as the error to explain.
C17_RequestNamesKindAndText ==
  \A i \in 1..Len(httpLog) :
    /\ httpLog[i].request.errorType = KindOf(step)
    /\ httpLog[i].request.errorText = cleanError

\* ------------------------------------------------------------------------
\* C18: the missing credential
\* ------------------------------------------------------------------------

\* getApiKey has shown the "API key required" notification
Prompted ==
  \E i \in 1..Len(messages) :
    messages[i] = Message("error", "Together.ai API key required!", Empty)

\* handleJavaExecution has shown the error of the missing key
KeyRefused ==
  \E i \in 1..Len(messages) : messages[i] = ErrorMessage(ApiKeyRequired)

NothingStarted == procCalls = <<>> /\ httpLog = <<>> /\ explCalls = <<>>

\* the invocation that was prompted: nothing is started while it waits for
\* the user; after a non-empty key it holds the stored key and goes on to
\* compile; otherwise it has ended with the error and started nothing
PromptedInvocation ==
  Prompted =>
    IF pc \in {"keyPrompt", "keyInput"}
    THEN NothingStarted /\ ~KeyRefused
    ELSE IF Truthy(secrets)
         THEN /\ apiKey = secrets.value
              /\ pc = "compile" \/ CallsOf("javac") # {}
              /\ ~KeyRefused
              /\ \A i \in 1..Len(httpLog) :
                   httpLog[i].request.apiKey = secrets.value
         ELSE pc = "done" /\ KeyRefused /\ NothingStarted

\* the steps of getApiKey
PromptSteps ==
  /\ (pc = "idle" /\ ~Truthy(secrets) /\ pc' # "idle" /\ filePath' # Empty)
       => pc' = "keyPrompt" /\ Prompted' /\ ~KeyRefused'
  /\ secrets' # secrets
       => /\ pc = "keyInput" /\ pc' = "compile"
          /\ Truthy(secrets') /\ apiKey' = secrets'.value

\* C18: with no stored credential getApiKey prompts instead of aborting; a
\* non-empty key is stored and the invocation goes on to compile with it;
\* a dismissed prompt or an empty answer ends the invocation with an error
\* message, and no process and no network call is started.
C18_PromptInsteadOfAbort == []PromptedInvocation /\ [][PromptSteps]_vars

C18_Witness ==
  /\ Prompted /\ Truthy(secrets) /\ apiKey = secrets.value
  /\ Len(httpLog) >= 1

\* ------------------------------------------------------------------------
\* Overlapping invocations
\* ------------------------------------------------------------------------

\* the invocations are interleaved until they have awaited more than this
\* many processes and requests between them; from then on the running one
\* goes on alone
MaxAwaited == 1

\* the processes and requests an invocation has awaited
Awaited(locals) == Len(locals.procCalls) + Len(locals.httpLog)

\* the locals of the invocation that is running
Locals ==
  [pc |-> pc, filePath |-> filePath, apiKey |-> apiKey, step |-> step,
   caught |-> caught, cleanError |-> cleanError, call |-> call,
   outcome |-> outcome, httpLog |-> httpLog, sleeps |-> sleeps,
   explCalls |-> explCalls, procCalls |-> procCalls, messages |-> messages,
   modal |-> modal]

\* the event loop leaves the running invocation at its await and goes on
\* with the other one (a save event starts it, or its awaited promise has
\* settled); secret store and configuration belong to neither
Yield ==
  /\ pc # "idle"
  /\ Locals # other
  /\ Awaited(Locals) + Awaited(other) <= MaxAwaited
  /\ other' = Locals
  /\ pc' = other.pc
  /\ filePath' = other.filePath
  /\ apiKey' = other.apiKey
  /\ step' = other.step
  /\ caught' = other.caught
  /\ cleanError' = other.cleanError
  /\ call' = other.call
  /\ outcome' = other.outcome
  /\ httpLog' = other.httpLog
  /\ sleeps' = other.sleeps
  /\ explCalls' = other.explCalls
  /\ procCalls' = other.procCalls
  /\ messages' = other.messages
  /\ modal' = other.modal
  /\ UNCHANGED <<secrets, config, probe>>

ConcNext == Next \/ Yield

ConcSpec == Init /\ [][ConcNext]_vars

\* getApiKey of this invocation has prompted
PromptedIn(locals) ==
  \E i \in 1..Len(locals.messages) :
    locals.messages[i] =
      Message("error", "Together.ai API key required!", Empty)

\* this invocation has passed the file check and read the secret store
HasRead(locals) == locals.filePath # Empty

\* two invocations that have read the store were both prompted or both not
PromptsAgree ==
  (HasRead(Locals) /\ HasRead(other))
    => (PromptedIn(Locals) <=> PromptedIn(other))

\* C19, as stated: overlapping invocations share no mutable state: each
\* behaves as it does alone from the same initial secret store (so both are
\* prompted or neither is), and none changes the stored credential.
C19_NoSharedState == [][secrets' = secrets /\ PromptsAgree']_vars

\* whatever this invocation has asked of the endpoint carries the key it
\* got from getApiKey, and it starts no process without such a key
OwnKey(locals) ==
  /\ \A i \in 1..Len(locals.httpLog) :
       locals.httpLog[i].request.apiKey = locals.apiKey
  /\ \A i \in 1..Len(locals.explCalls) :
       locals.explCalls[i].apiKey = locals.apiKey
  /\ (locals.pc = "compile" \/ locals.procCalls # <<>>)
       => locals.apiKey # Empty

\* what a step does to the store and to the suspended invocation
StoreSteps ==
  /\ secrets' # secrets
       => /\ pc = "keyInput" /\ pc' = "compile"
          /\ Truthy(secrets') /\ apiKey' = secrets'.value
          /\ other' = other
  /\ other' # other
       => other' = Locals /\ Locals' = other /\ secrets' = secrets
  /\ (pc = "idle" /\ filePath' # Empty)
       => /\ PromptedIn(Locals') <=> ~Truthy(secrets)
          /\ Truthy(secrets) => apiKey' = secrets.value

\* C19, amended: overlapping invocations share the secret store and nothing
\* else.  An invocation reads the store once, at its start, and is prompted
\* exactly when the store holds no credential at that moment; the store
\* changes only in getApiKey, to the non-empty key the user has entered,
\* which is that invocation's key; every request of an invocation carries
\* the key it got, whatever is stored later; the running invocation leaves
\* the locals of the suspended one alone.
C19_OnlyStoreShared ==
  [](OwnKey(Locals) /\ OwnKey(other)) /\ [][StoreSteps]_vars

C19_Witness ==
  /\ Truthy(secrets) /\ secrets.value = other.apiKey
  /\ apiKey # Empty /\ apiKey # other.apiKey
  /\ Len(httpLog) >= 1
  /\ PromptedIn(Locals) /\ PromptedIn(other)

\* ------------------------------------------------------------------------
\* C20: the notifications of one failed step
\* ------------------------------------------------------------------------

\* the calls of showErrorMessage that report a failure (getApiKey's prompt
\* reports none)
FailureNotifications ==
  {i \in 1..Len(messages) :
     /\ messages[i].sev = "error"
     /\ messages[i] # Message("error", "Together.ai API key required!", Empty)}

\* C20: a failed compile or run step produces at most one error
\* notification, whether the explanation call succeeds or fails.
C20_OneNotificationPerFailure ==
  step # "none" => Cardinality(FailureNotifications) <= 1

====
